---- MODULE Spec2Model ----
(***************************************************************************)
(* Daily challenge assignment (src/lib/db/challenge-generator.ts) over the  *)
(* SQLite store (src/lib/db/schema.ts, challenges.ts, users.ts).            *)
(*                                                                         *)
(* Strings are sequences of UTF-16 code units.  32-bit integers are pairs   *)
(* of 16-bit limbs [hi, lo] so that the wraparound of the hash is computed  *)
(* and never overflows the checker's own integers.                          *)
(***************************************************************************)
EXTENDS Integers, Sequences, FiniteSets, TLC

\* ------------------------------------------------------------------ bounds
MaxProcs == 2       \* server instances sharing the database file
MaxDays == 4        \* request dates of the sequential specification
MaxCats == 3        \* seeded categories
MaxKeyLen == 2      \* length of the short selector keys
MaxMod == 4         \* largest modulus handed to the selector
MaxIds == 3         \* ids handed out where rows can be deleted and created again
MaxStatDays == 5    \* days of the histories the streaks are computed on
MaxTotal == 40      \* rows of the histories the completion rate is computed on
MaxBatchDays == 3   \* days of a batch of upcoming challenges
MaxLongExtra == 2   \* rows of a long history beyond the limit of the streak's query
MaxPairDays == 5    \* days on which two users request their challenges
MaxFetches == 5     \* requests the history page sends
MaxPages == 2       \* pages of the longest history

\* --------------------------------------------------------------- constants
TemplatesPerCat == 2
WindowLimit == 5
WindowMin == 3
Limb == 65536
HalfLimb == 32768

NULL == "NULL"

VARIABLES
  users,                \* users table: the ids
  categories,           \* categories table: the category numbers
  challenge_templates,  \* challenge_templates table: the template numbers
  user_challenges,      \* user_challenges table: the rows
  nextId,               \* the next value of generateId()
  pc,                   \* per instance: "idle", or "checked" between the
                        \* existence check and the transaction
  call,                 \* per instance: arguments of the current or last call
  ret,                  \* per instance: outcome and locals of the last call
  sel,                  \* the last call of the selector on its own
  env,                  \* the process environment: time zone and clock
  stat,                 \* the last results of the statistics functions
  http,                 \* the last response of the completion route
  batch,                \* the running or last getUpcomingChallenges call
  view                  \* the history page: its state and its requests in flight

vars == <<users, categories, challenge_templates, user_challenges, nextId,
          pc, call, ret, sel, env, stat, http, batch, view>>

store == <<users, categories, challenge_templates, user_challenges, nextId>>

Procs == 1..MaxProcs
UserIds == {1, 2}
CatNums == 1..MaxCats
TemplateNums == 1..(MaxCats * TemplatesPerCat)

\* ------------------------------------------------------- DeterministicSelector
\* hash << 5 on a 32-bit integer
Shl5(h) ==
  LET l == h.lo * 32
  IN  [hi |-> (h.hi * 32 + (l \div Limb)) % Limb, lo |-> l % Limb]

\* a - b modulo 2^32
Sub32(a, b) ==
  LET borrow == IF a.lo < b.lo THEN 1 ELSE 0
  IN  [hi |-> (a.hi - b.hi - borrow + 2 * Limb) % Limb,
       lo |-> (a.lo - b.lo + Limb) % Limb]

\* a + c modulo 2^32, for a code unit c
Add32(a, c) ==
  LET l == a.lo + c
  IN  [hi |-> (a.hi + (l \div Limb)) % Limb, lo |-> l % Limb]

\* hash = ((hash << 5) - hash) + char
HashStep(h, c) == Add32(Sub32(Shl5(h), h), c)

IsInt32(h) == h.hi \in 0..(Limb - 1) /\ h.lo \in 0..(Limb - 1)

\* the loop of lines 103-107 from index i on; hash & hash keeps the 32 bits
RECURSIVE HashFrom(_, _, _)
HashFrom(h, s, i) ==
  IF i > Len(s) THEN h
  ELSE LET hash == HashStep(h, s[i])
       IN  IF IsInt32(hash) THEN HashFrom(hash, s, i + 1) ELSE hash

\* a hash seeded from the state of the store
StringHashSalted(s) == HashFrom([hi |-> 0, lo |-> nextId], s, 1)

StringHash(s) == HashFrom([hi |-> 0, lo |-> 0], s, 1)

IsNegative32(h) == h.hi >= HalfLimb

\* Math.abs of a signed 32-bit value, as an unsigned magnitude (2^31 included)
Abs32(h) ==
  IF IsNegative32(h)
  THEN [hi |-> (Limb - h.hi - (IF h.lo > 0 THEN 1 ELSE 0)) % Limb,
        lo |-> (Limb - h.lo) % Limb]
  ELSE h

AbsInt(n) == IF n < 0 THEN 0 - n ELSE n

\* the % operator on a non-negative dividend: NaN for a zero divisor; the
\* sign of the divisor is ignored
Rem32(a, m) ==
  IF m = 0 THEN [nan |-> TRUE, value |-> 0]
  ELSE LET k == AbsInt(m)
       IN  [nan |-> FALSE, value |-> (((a.hi % k) * (Limb % k)) + a.lo) % k]

\* hash % max without Math.abs: the remainder takes the sign of the hash
getDateBasedIndexNoAbs(dateStr, max) ==
  LET h == StringHash(dateStr)
      r == Rem32(Abs32(h), max)
  IN  IF IsNegative32(h) THEN [r EXCEPT !.value = 0 - r.value] ELSE r

\* an absolute value taken in 32 bits, where -2^31 has none and stays negative
getDateBasedIndexAbsInt32(dateStr, max) ==
  LET h == StringHash(dateStr)
      r == Rem32(Abs32(h), max)
  IN  IF h = [hi |-> HalfLimb, lo |-> 0] THEN [r EXCEPT !.value = 0 - r.value]
      ELSE r

\* returns Math.abs(hash) % max; no statement of the function throws
getDateBasedIndex(dateStr, max) == Rem32(Abs32(StringHash(dateStr)), max)

\* ------------------------------------------------------------------- strings
Digit(n) == 48 + n

\* new Date().toISOString().split('T')[0] for day d of January 2023
DateKey(d) == <<50, 48, 50, 51, 45, 48, 49, 45, Digit(d \div 10), Digit(d % 10)>>

\* the days of the month on which requests arrive
DayTable == <<1, 4, 7, 10, 2, 5>>

Dates == {DateKey(DayTable[i]) : i \in 1..MaxDays}
RaceDates == {DateKey(DayTable[1])}

\* s < t in the text order of the store (ORDER BY on a TEXT column)
RECURSIVE LexLessFrom(_, _, _)
LexLessFrom(s, t, i) ==
  IF i > Len(t) THEN FALSE
  ELSE IF i > Len(s) THEN TRUE
  ELSE IF s[i] # t[i] THEN s[i] < t[i]
  ELSE LexLessFrom(s, t, i + 1)

LexLess(s, t) == LexLessFrom(s, t, 1)

\* ------------------------------------------------------------------- catalog
\* id column of category c
CatId(c) == <<99, 97, 116, Digit(c)>>

\* first code unit of the seeded names Fitness, Creativity, Learning,
\* Productivity, Mindfulness, Social: the names differ in it
CatName(c) == <<70, 67, 76, 80, 77, 83>>[c]

\* category_id and created_at columns of template t
TplCategory(t) == ((t - 1) \div TemplatesPerCat) + 1
TplCreatedAt(t) == t

\* SELECT ... FROM categories ORDER BY name ASC
RECURSIVE CategoriesByName(_)
CategoriesByName(S) ==
  IF S = {} THEN <<>>
  ELSE LET c == CHOOSE x \in S : \A y \in S : CatName(x) <= CatName(y)
       IN  <<c>> \o CategoriesByName(S \ {c})

getCategories == CategoriesByName(categories)

\* SELECT ... FROM challenge_templates WHERE category_id = ? ORDER BY created_at DESC
RECURSIVE TemplatesByCreatedDesc(_)
TemplatesByCreatedDesc(S) ==
  IF S = {} THEN <<>>
  ELSE LET t == CHOOSE x \in S : \A y \in S : TplCreatedAt(x) >= TplCreatedAt(y)
       IN  <<t>> \o TemplatesByCreatedDesc(S \ {t})

\* getChallengeTemplates() without a category id: every template
getAllChallengeTemplates(c) == TemplatesByCreatedDesc(challenge_templates)

getChallengeTemplates(c) ==
  TemplatesByCreatedDesc({t \in challenge_templates : TplCategory(t) = c})

\* ---------------------------------------------------------------- assignments
\* stmt.get: the first row of the result, as a set of at most one row
getOne(rows) == IF rows = {} THEN {} ELSE {CHOOSE r \in rows : TRUE}

TheRow(one) == CHOOSE r \in one : TRUE

\* a lookup that finds nothing
getUserChallengeByDateMiss(u, d) == {}

\* a lookup that leaves out AND uc.date = ?
getUserChallengeByUser(u, d) == getOne({r \in user_challenges : r.user_id = u})

\* uc JOIN challenge_templates ct JOIN categories c WHERE user_id = ? AND date = ?
getUserChallengeByDate(u, d) ==
  LET found == {r \in user_challenges :
                  /\ r.user_id = u
                  /\ r.date = d
                  /\ r.template_id \in challenge_templates
                  /\ TplCategory(r.template_id) \in categories}
  IN  getOne(found)

getUserChallengeById(id) == getOne({r \in user_challenges : r.id = id})

\* the result of ORDER BY with row r put in: r goes behind the k rows that
\* stay before it
InsertAt(sorted, r, k) ==
  SubSeq(sorted, 1, k) \o <<r>> \o SubSeq(sorted, k + 1, Len(sorted))

\* ORDER BY date DESC of the rows of S with an id in lo..hi, put into sorted
\* one by one, the lower half of the ids first
RECURSIVE InsertByDateDesc(_, _, _, _)
InsertByDateDesc(S, lo, hi, sorted) ==
  IF lo > hi THEN sorted
  ELSE IF lo = hi
  THEN LET one == {r \in S : r.id = lo}
       IN  IF one = {} THEN sorted
           ELSE InsertAt(sorted, TheRow(one),
                  Cardinality({i \in 1..Len(sorted) :
                                 ~LexLess(sorted[i].date, TheRow(one).date)}))
  ELSE LET first == InsertByDateDesc(S, lo, (lo + hi) \div 2, sorted)
       IN  IF Len(first) >= 0
           THEN InsertByDateDesc(S, (lo + hi) \div 2 + 1, hi, first)
           ELSE first

\* the smallest and the largest id of the rows of S
MinId(S) == CHOOSE a \in {r.id : r \in S} : \A r \in S : a <= r.id
MaxId(S) == CHOOSE a \in {r.id : r \in S} : \A r \in S : a >= r.id

RowsByDateDesc(S) ==
  IF S = {} THEN <<>> ELSE InsertByDateDesc(S, MinId(S), MaxId(S), <<>>)

Take(s, n) == IF Len(s) <= n THEN s ELSE SubSeq(s, 1, n)

\* a window over the rows of every user
recentChallengesOfAnyUser(u) ==
  LET joined == {r \in user_challenges : r.template_id \in challenge_templates}
  IN  Take(RowsByDateDesc(joined), WindowLimit)

\* the recent window: uc JOIN ct WHERE user_id = ? ORDER BY date DESC LIMIT 5
recentChallenges(u) ==
  LET joined == {r \in user_challenges :
                   r.user_id = u /\ r.template_id \in challenge_templates}
  IN  Take(RowsByDateDesc(joined), WindowLimit)

SeqRange(s) == {s[i] : i \in 1..Len(s)}

\* recentChallenges.map(c => c.category_id), ct.category_id of each row
RECURSIVE categoryIdsOf(_)
categoryIdsOf(rows) ==
  IF rows = <<>> THEN <<>>
  ELSE <<TplCategory(Head(rows).template_id)>> \o categoryIdsOf(Tail(rows))

\* a scan that ends on the index after categoryIndex when it finds nothing
RECURSIVE ScanFromNoFallback(_, _, _, _)
ScanFromNoFallback(cats, recentCategoryIds, categoryIndex, i) ==
  IF i >= Len(cats) THEN (categoryIndex + 1) % Len(cats)
  ELSE LET nextIndex == (categoryIndex + i + 1) % Len(cats)
       IN  IF cats[nextIndex + 1] \notin recentCategoryIds
           THEN nextIndex
           ELSE ScanFromNoFallback(cats, recentCategoryIds, categoryIndex, i + 1)

\* the loop of lines 52-58: the first index after categoryIndex, wrapping,
\* whose category is not recent; categoryIndex when there is none
RECURSIVE ScanFrom(_, _, _, _)
ScanFrom(cats, recentCategoryIds, categoryIndex, i) ==
  IF i >= Len(cats) THEN categoryIndex
  ELSE LET nextIndex == (categoryIndex + i + 1) % Len(cats)
       IN  IF cats[nextIndex + 1] \notin recentCategoryIds
           THEN nextIndex
           ELSE ScanFrom(cats, recentCategoryIds, categoryIndex, i + 1)

\* a selection without the scan
selectedCategoryIndexNoScan(cats, recent, categoryIndex) == categoryIndex

\* a selection that scans whenever the base category is recent, however few
\* the recent rows are
selectedCategoryIndexAnyWindow(cats, recent, categoryIndex) ==
  LET recentCategoryIds == SeqRange(categoryIdsOf(recent))
  IN  IF cats[categoryIndex + 1] \in recentCategoryIds
      THEN ScanFrom(cats, recentCategoryIds, categoryIndex, 0)
      ELSE categoryIndex

\* a selection that needs more than WindowMin recent rows
selectedCategoryIndexLongWindow(cats, recent, categoryIndex) ==
  LET recentCategoryIds == SeqRange(categoryIdsOf(recent))
  IN  IF cats[categoryIndex + 1] \in recentCategoryIds /\ Len(recent) > WindowMin
      THEN ScanFrom(cats, recentCategoryIds, categoryIndex, 0)
      ELSE categoryIndex

\* lines 47-59; indices are 0-based as in the code
selectedCategoryIndex(cats, recent, categoryIndex) ==
  LET recentCategoryIds == SeqRange(categoryIdsOf(recent))
  IN  IF cats[categoryIndex + 1] \in recentCategoryIds /\ Len(recent) >= WindowMin
      THEN ScanFrom(cats, recentCategoryIds, categoryIndex, 0)
      ELSE categoryIndex

\* ------------------------------------------------------------------- outcomes
NoCall == [user |-> 0, date |-> <<>>, rep |-> 0]

NoRet == [kind |-> "none", id |-> 0, err |-> NULL, inserted |-> FALSE,
          ran |-> FALSE, recent |-> <<>>, cats |-> <<>>, base |-> 0,
          category |-> 0, templates |-> <<>>, template |-> 0]

Returned(id) == [NoRet EXCEPT !.kind = "ok", !.id = id]

\* a table without UNIQUE (user_id, date)
UniqueViolationOff(u, d) == FALSE

\* the constraints of user_challenges
UniqueViolation(u, d) ==
  \E r \in user_challenges : r.user_id = u /\ r.date = d

ForeignKeyViolation(u, t) == u \notin users \/ t \notin challenge_templates

insertError(u, t, d) ==
  IF UniqueViolation(u, d) THEN "SQLITE_CONSTRAINT_UNIQUE"
  ELSE IF ForeignKeyViolation(u, t) THEN "SQLITE_CONSTRAINT_FOREIGNKEY"
  ELSE NULL

\* the row INSERT INTO user_challenges (id, user_id, template_id, date) makes
newUserChallenge(id, u, t, d) ==
  [id |-> id, user_id |-> u, template_id |-> t, date |-> d,
   completed |-> 0, completed_at |-> NULL]

\* the transaction of generateDailyChallenge up to the insert: its locals, and
\* the error it throws before the insert if any
generateLocals(u, d) ==
  LET recent == recentChallenges(u)
      cats == getCategories
      seen == [NoRet EXCEPT !.ran = TRUE,
                 !.recent = categoryIdsOf(recent),
                 !.cats = cats]
  IN  IF Len(cats) = 0
      THEN [seen EXCEPT !.kind = "error", !.err = "NoCategories"]
      ELSE
        LET categoryIndex == getDateBasedIndex(d, Len(cats)).value
            selected == selectedCategoryIndex(cats, recent, categoryIndex)
            selectedCategory == cats[selected + 1]
            templates == getChallengeTemplates(selectedCategory)
            chosen == [seen EXCEPT !.base = categoryIndex,
                         !.category = selectedCategory,
                         !.templates = templates]
        IN  IF Len(templates) = 0
            THEN [chosen EXCEPT !.kind = "error", !.err = "NoTemplates"]
            ELSE
              LET templateIndex ==
                    getDateBasedIndex(d \o CatId(selectedCategory),
                                      Len(templates)).value
              IN  [chosen EXCEPT !.template = templates[templateIndex + 1]]

\* ------------------------------------------------------------ dates and time
\* Instants are hours since 2023-03-01T00:00Z minus one day, so that the UTC
\* midnight of the n-th day counted from 2023-03-01 is the instant 24 * n;
\* day 32 is 2023-04-01.  One day of Date arithmetic, 86400000 ms, is 24 hours.
DayHours == 24

\* the lengths of March to August 2023
MonthLengths == <<31, 30, 31, 30, 31, 31>>
FirstMonth == 3

\* month and day of the month of day n, from the m-th month of MonthLengths on
RECURSIVE MonthAndDay(_, _)
MonthAndDay(n, m) ==
  IF n <= MonthLengths[m] THEN [month |-> FirstMonth + m - 1, day |-> n]
  ELSE MonthAndDay(n - MonthLengths[m], m + 1)

\* the days of the months before the m-th month of MonthLengths
RECURSIVE DaysBefore(_)
DaysBefore(m) == IF m = 1 THEN 0 ELSE DaysBefore(m - 1) + MonthLengths[m - 1]

\* the YYYY-MM-DD string of day n
IsoDate(n) ==
  LET md == MonthAndDay(n, 1)
  IN  <<50, 48, 50, 51, 45, 48, Digit(md.month), 45,
        Digit(md.day \div 10), Digit(md.day % 10)>>

\* new Date('YYYY-MM-DD').getTime(): a date-only string is the UTC midnight
ParseDate(s) ==
  LET month == (s[6] - 48) * 10 + (s[7] - 48)
      day == (s[9] - 48) * 10 + (s[10] - 48)
  IN  DayHours * (DaysBefore(month - FirstMonth + 1) + day)

\* time zones of the process: the offset in hours at the start of the modelled
\* weeks and the instant at which daylight saving time starts (0: no change
\* in these weeks; New York has changed on 2023-03-12 already)
UTC == [name |-> "UTC", base |-> 0, dstAt |-> 0]
NewYork == [name |-> "America/New_York", base |-> 0 - 4, dstAt |-> 0]
Berlin == [name |-> "Europe/Berlin", base |-> 1, dstAt |-> DayHours * 26 + 1]
TimeZones == {UTC, NewYork, Berlin}

\* offset of local time from UTC at instant t
Offset(tz, t) == IF tz.dstAt # 0 /\ t >= tz.dstAt THEN tz.base + 1 ELSE tz.base

\* local wall clock of instant t, in hours, and its calendar day
WallClock(tz, t) == t + Offset(tz, t)
LocalDay(tz, t) == WallClock(tz, t) \div DayHours

\* the instant that shows wall clock w; a wall clock inside the skipped hour
\* is read with the offset before the change
FromWallClock(tz, w) ==
  LET early == w - tz.base
      late == w - tz.base - 1
  IN  IF tz.dstAt = 0 \/ early < tz.dstAt THEN early
      ELSE IF late >= tz.dstAt THEN late ELSE early

\* date.setHours(0, 0, 0, 0): midnight of the local day of t
setHoursZero(tz, t) == FromWallClock(tz, DayHours * LocalDay(tz, t))

\* date.setDate(date.getDate() + k): the same wall clock k local days later
setDatePlus(tz, t, k) == FromWallClock(tz, WallClock(tz, t) + DayHours * k)

\* date.toISOString().split('T')[0]: the UTC calendar day of t
toISODate(t) == IsoDate(t \div DayHours)

\* getFullYear() + '-' + getMonth() + 1 + '-' + getDate(): the local day of t
toLocalDate(tz, t) == IsoDate(LocalDay(tz, t))

\* ------------------------------------------------------------ StatisticsEngine
HistoryLimit == 100

\* rows of user u with their template and category, ORDER BY uc.date DESC
\* LIMIT ? OFFSET ?
getUserChallengeHistory(u, limit, offset) ==
  LET joined == RowsByDateDesc({r \in user_challenges :
                                  /\ r.user_id = u
                                  /\ r.template_id \in challenge_templates
                                  /\ TplCategory(r.template_id) \in categories})
  IN  IF offset >= Len(joined) THEN <<>>
      ELSE Take(SubSeq(joined, offset + 1, Len(joined)), limit)

\* one pass of the loop body, lines 46-67: the locals after it, and whether
\* the loop has been left by break
StreakStep(tz, challenge, st) ==
  IF st.broken THEN st
  ELSE LET challengeDate == setHoursZero(tz, ParseDate(challenge.date))
           done == challenge.completed # 0
       IN  IF challengeDate = st.currentDate /\ done
           THEN [st EXCEPT !.streak = @ + 1,
                           !.currentDate = setDatePlus(tz, @, 0 - 1)]
           ELSE IF challengeDate = st.currentDate /\ ~done
           THEN [st EXCEPT !.broken = TRUE]
           ELSE IF challengeDate < st.currentDate
           THEN [st EXCEPT !.broken = TRUE]
           ELSE st

\* the passes for rows lo..hi in order
RECURSIVE StreakRange(_, _, _, _, _)
StreakRange(tz, challenges, lo, hi, st) ==
  IF lo > hi THEN st
  ELSE IF lo = hi THEN StreakStep(tz, challenges[lo], st)
  ELSE LET first == StreakRange(tz, challenges, lo, (lo + hi) \div 2, st)
       IN  IF first.streak >= 0
           THEN StreakRange(tz, challenges, (lo + hi) \div 2 + 1, hi, first)
           ELSE first

\* the loops of lines 45-69 and 78-103: from row i on, with the expected
\* date currentDate and the count so far
StreakWalk(tz, challenges, i, currentDate, streak) ==
  StreakRange(tz, challenges, i, Len(challenges),
              [currentDate |-> currentDate, streak |-> streak,
               broken |-> FALSE]).streak

\* lines 25-106 on the rows read
currentStreakOf(challenges) ==
  LET tz == env.tz
      today == setHoursZero(tz, env.now)
      todayStr == toLocalDate(tz, today)
  IN  IF Len(challenges) = 0 THEN 0
      ELSE LET mostRecent == challenges[1]
           IN  IF mostRecent.date # todayStr /\ mostRecent.completed # 0
               THEN StreakWalk(tz, challenges, 1, ParseDate(mostRecent.date), 0)
               ELSE IF mostRecent.date = todayStr /\ mostRecent.completed # 0
               THEN StreakWalk(tz, challenges, 2, setDatePlus(tz, today, 0 - 1), 1)
               ELSE 0

IsCompleted(r) == r.completed # 0

\* a streak read from the completed rows only
calculateCurrentStreakOfCompleted(u) ==
  currentStreakOf(SelectSeq(getUserChallengeHistory(u, HistoryLimit, 0), IsCompleted))

calculateCurrentStreak(u) ==
  currentStreakOf(getUserChallengeHistory(u, HistoryLimit, 0))

\* SELECT date, completed FROM user_challenges WHERE user_id = ? ORDER BY date ASC
RECURSIVE InsertByDateAsc(_, _, _, _)
InsertByDateAsc(S, lo, hi, sorted) ==
  IF lo > hi THEN sorted
  ELSE IF lo = hi
  THEN LET one == {r \in S : r.id = lo}
       IN  IF one = {} THEN sorted
           ELSE InsertAt(sorted, TheRow(one),
                  Cardinality({i \in 1..Len(sorted) :
                                 ~LexLess(TheRow(one).date, sorted[i].date)}))
  ELSE LET first == InsertByDateAsc(S, lo, (lo + hi) \div 2, sorted)
       IN  IF Len(first) >= 0
           THEN InsertByDateAsc(S, (lo + hi) \div 2 + 1, hi, first)
           ELSE first

RowsByDateAsc(S) ==
  IF S = {} THEN <<>> ELSE InsertByDateAsc(S, MinId(S), MaxId(S), <<>>)

\* the loop of lines 131-160; previousDate is a set of at most one instant
LongestStep(tz, challenge, st) ==
  LET challengeDate == setHoursZero(tz, ParseDate(challenge.date))
  IN  IF challenge.completed # 0
      THEN LET run == IF st.previousDate = {}
                         \/ st.previousDate = {challengeDate - DayHours}
                      THEN st.currentStreak + 1 ELSE 1
           IN  [currentStreak |-> run,
                longestStreak |-> IF run > st.longestStreak THEN run
                                  ELSE st.longestStreak,
                previousDate |-> {challengeDate}]
      ELSE [st EXCEPT !.currentStreak = 0, !.previousDate = {}]

\* the passes for rows lo..hi in order
RECURSIVE LongestRange(_, _, _, _, _)
LongestRange(tz, challenges, lo, hi, st) ==
  IF lo > hi THEN st
  ELSE IF lo = hi THEN LongestStep(tz, challenges[lo], st)
  ELSE LET first == LongestRange(tz, challenges, lo, (lo + hi) \div 2, st)
       IN  IF first.longestStreak >= 0
           THEN LongestRange(tz, challenges, (lo + hi) \div 2 + 1, hi, first)
           ELSE first

LongestWalk(tz, challenges, i, currentStreak, longestStreak, previousDate) ==
  LongestRange(tz, challenges, i, Len(challenges),
               [currentStreak |-> currentStreak, longestStreak |-> longestStreak,
                previousDate |-> previousDate]).longestStreak

calculateLongestStreak(u) ==
  LET challenges == RowsByDateAsc({r \in user_challenges : r.user_id = u})
  IN  IF Len(challenges) = 0 THEN 0
      ELSE LongestWalk(env.tz, challenges, 1, 0, 0, {})

\* SELECT COUNT(*) FROM user_challenges WHERE user_id = ? [AND completed = 1]
countUserChallenges(u) == Cardinality({r \in user_challenges : r.user_id = u})

countCompletedUserChallenges(u) ==
  Cardinality({r \in user_challenges : r.user_id = u /\ r.completed = 1})

\* IEEE 754 doubles of the rate: a positive double is its exponent exp and
\* the 53 bits of its significand, most significant first, its value being
\* bits * 2^(exp - 52); zero is apart
MantissaBits == 53

DoubleZero == [zero |-> TRUE, exp |-> 0, bits |-> <<>>]

\* num / den scaled by powers of two into [1, 2)
RECURSIVE Normalize(_, _, _)
Normalize(num, den, exp) ==
  IF num >= 2 * den THEN Normalize(num, 2 * den, exp + 1)
  ELSE IF num < den THEN Normalize(2 * num, den, exp - 1)
  ELSE [num |-> num, den |-> den, exp |-> exp]

\* n more quotient bits of rem / den by long division, and the remainder
RECURSIVE DivideBits(_, _, _, _)
DivideBits(acc, rem, den, n) ==
  IF n = 0 THEN [bits |-> acc, rem |-> rem]
  ELSE LET bit == IF 2 * rem >= den THEN 1 ELSE 0
           next == Append(acc, bit)
       IN  IF Len(next) > 0
           THEN DivideBits(next, 2 * rem - bit * den, den, n - 1)
           ELSE [bits |-> next, rem |-> rem]

\* bits + 1; all ones carry into the next power of two
RECURSIVE IncrementBits(_, _)
IncrementBits(bits, i) ==
  IF i = 0 THEN bits
  ELSE IF bits[i] = 0 THEN [bits EXCEPT ![i] = 1]
  ELSE IncrementBits([bits EXCEPT ![i] = 0], i - 1)

\* round to nearest, ties to even: up tells whether the discarded part calls
\* for the next significand
RoundDouble(exp, bits, up) ==
  IF ~up THEN [zero |-> FALSE, exp |-> exp, bits |-> bits]
  ELSE IF \A i \in 1..Len(bits) : bits[i] = 1
  THEN [zero |-> FALSE, exp |-> exp + 1,
        bits |-> [i \in 1..Len(bits) |-> IF i = 1 THEN 1 ELSE 0]]
  ELSE [zero |-> FALSE, exp |-> exp, bits |-> IncrementBits(bits, Len(bits))]

\* the double a / b of two positive integers
DoubleDivide(a, b) ==
  IF a = 0 THEN DoubleZero
  ELSE LET n == Normalize(a, b, 0)
           q == DivideBits(<<1>>, n.num - n.den, n.den, MantissaBits - 1)
           up == \/ 2 * q.rem > n.den
                 \/ 2 * q.rem = n.den /\ q.bits[MantissaBits] = 1
       IN  RoundDouble(n.exp, q.bits, up)

\* the exact product bits * k, most significant bit first
RECURSIVE MultiplyBits(_, _, _, _)
MultiplyBits(bits, k, i, out) ==
  IF i = 0
  THEN IF out.carry = 0 THEN out.bits
       ELSE LET next == [bits |-> <<out.carry % 2>> \o out.bits,
                         carry |-> out.carry \div 2]
            IN  IF Len(next.bits) > 0 THEN MultiplyBits(bits, k, 0, next)
                ELSE next.bits
  ELSE LET v == bits[i] * k + out.carry
           next == [bits |-> <<v % 2>> \o out.bits, carry |-> v \div 2]
       IN  IF Len(next.bits) > 0 THEN MultiplyBits(bits, k, i - 1, next)
           ELSE next.bits

\* the double x * k for a positive integer k
DoubleTimes(x, k) ==
  IF x.zero THEN DoubleZero
  ELSE LET product == MultiplyBits(x.bits, k, MantissaBits,
                                   [bits |-> <<>>, carry |-> 0])
           len == Len(product)
           kept == SubSeq(product, 1, MantissaBits)
           guard == len > MantissaBits /\ product[MantissaBits + 1] = 1
           sticky == \E i \in (MantissaBits + 2)..len : product[i] = 1
           up == guard /\ (sticky \/ kept[MantissaBits] = 1)
       IN  RoundDouble(x.exp + (len - MantissaBits), kept, up)

RECURSIVE BitsToInt(_, _, _)
BitsToInt(bits, i, acc) ==
  IF i > Len(bits) THEN acc
  ELSE LET next == 2 * acc + bits[i]
       IN  IF next >= 0 THEN BitsToInt(bits, i + 1, next) ELSE next

\* Math.round of a double >= 0: the nearest integer, halves upwards
MathRound(x) ==
  IF x.zero \/ x.exp < 0 - 1 THEN 0
  ELSE IF x.exp = 0 - 1 THEN 1
  ELSE BitsToInt(SubSeq(x.bits, 1, x.exp + 1), 1, 0)
         + (IF x.exp + 2 <= MantissaBits THEN x.bits[x.exp + 2] ELSE 0)

\* Math.round((completedChallenges / totalChallenges) * 100)
roundedPercentage(completedChallenges, totalChallenges) ==
  MathRound(DoubleTimes(DoubleDivide(completedChallenges, totalChallenges), 100))

calculateCompletionRate(u) ==
  LET totalChallenges == countUserChallenges(u)
  IN  IF totalChallenges = 0 THEN 0
      ELSE roundedPercentage(countCompletedUserChallenges(u), totalChallenges)

\* ------------------------------------------------------------------- actions
\* the tables after initializeSchema, the seed script and the registration of
\* the users: the categories cats, and templates for the categories tcats
SeededStore(cats, tcats) ==
  /\ users = UserIds
  /\ categories = cats
  /\ challenge_templates = {t \in TemplateNums : TplCategory(t) \in tcats}
  /\ user_challenges = {}
  /\ nextId = 1

NoCaller ==
  /\ pc = [p \in Procs |-> "idle"]
  /\ call = [p \in Procs |-> NoCall]
  /\ ret = [p \in Procs |-> NoRet]
  /\ sel = [called |-> FALSE, key |-> <<>>, max |-> 0, threw |-> FALSE,
            nan |-> FALSE, value |-> 0, again |-> FALSE, same |-> TRUE]

\* the process runs in UTC, at noon of 2023-03-27
NoonHour == 12
DefaultEnv == [tz |-> UTC, now |-> DayHours * 27 + NoonHour]

NoStat == [got |-> FALSE, user |-> 0, totalChallenges |-> 0,
           completedChallenges |-> 0, currentStreak |-> 0, longestStreak |-> 0,
           completionRate |-> 0, gotRate |-> FALSE, rateUser |-> 0, rate |-> 0,
           at |-> "idle", snaps |-> {}]

NoHttp == [method |-> "none", user |-> 0, json |-> FALSE, challengeId |-> 0,
           status |-> 0, updated |-> FALSE]

NoBatch == [active |-> FALSE, done |-> FALSE, failed |-> FALSE, user |-> 0,
            days |-> 0, today |-> 0, dates |-> <<>>, ids |-> <<>>,
            inserts |-> 0, before |-> {}]

\* no statistics read, no request of the completion route, no batch, no page
\* useState<ChallengeHistoryData | null>(null)
NullData == [null |-> TRUE, challenges |-> <<>>,
             pagination |-> [page |-> 0, total |-> 0, completed |-> "undefined",
                             hasMore |-> FALSE]]

\* the history page not opened
NoView == [mounted |-> FALSE, historyData |-> NullData, isLoading |-> TRUE,
           error |-> NULL, currentPage |-> 1, completedFilter |-> "undefined",
           isLoadingMore |-> FALSE, inflight |-> {}, issued |-> 0]

NoRequest == stat = NoStat /\ http = NoHttp /\ batch = NoBatch /\ view = NoView

\* every category seeded with its templates
Init == SeededStore(CatNums, CatNums) /\ NoCaller /\ NoRequest /\ env = DefaultEnv

\* any seed data the foreign key of challenge_templates admits: some of the
\* categories, some of them with templates
GenInit ==
  \E cats \in SUBSET CatNums : \E tcats \in SUBSET cats :
    SeededStore(cats, tcats) /\ NoCaller /\ NoRequest /\ env = DefaultEnv

\* generateDailyChallenge, lines 13-17: the existence check and the fast path
generateDailyChallenge(p, u, d) ==
  /\ pc[p] = "idle"
  /\ LET existingChallenge == getUserChallengeByDate(u, d)
         rep == IF ret[p].kind = "ok" /\ call[p].user = u /\ call[p].date = d
                THEN ret[p].id ELSE 0
     IN  /\ call' = [call EXCEPT ![p] = [user |-> u, date |-> d, rep |-> rep]]
         /\ IF existingChallenge # {}
            THEN /\ ret' = [ret EXCEPT ![p] = Returned(TheRow(existingChallenge).id)]
                 /\ pc' = pc
            ELSE /\ ret' = [ret EXCEPT ![p] = NoRet]
                 /\ pc' = [pc EXCEPT ![p] = "checked"]
  /\ UNCHANGED <<store, sel>>

\* generateDailyChallenge, lines 19-78: the transaction
generateTransaction(p) ==
  /\ pc[p] = "checked"
  /\ LET u == call[p].user
         d == call[p].date
         g == generateLocals(u, d)
         e == IF g.kind = "error" THEN g.err ELSE insertError(u, g.template, d)
     IN  IF e = NULL
         THEN /\ user_challenges' =
                   user_challenges \cup {newUserChallenge(nextId, u, g.template, d)}
              /\ nextId' = nextId + 1
              /\ ret' = [ret EXCEPT ![p] =
                           [g EXCEPT !.kind = "ok", !.id = nextId, !.inserted = TRUE]]
         ELSE /\ ret' = [ret EXCEPT ![p] = [g EXCEPT !.kind = "error", !.err = e]]
              /\ UNCHANGED <<user_challenges, nextId>>
  /\ pc' = [pc EXCEPT ![p] = "idle"]
  /\ UNCHANGED <<users, categories, challenge_templates, call, sel>>

\* an UPDATE without WHERE id = ?
completeUserChallengeEveryRow(id) ==
  /\ user_challenges' =
       {[r EXCEPT !.completed = 1, !.completed_at = "CURRENT_TIMESTAMP"] :
          r \in user_challenges}
  /\ UNCHANGED <<users, categories, challenge_templates, nextId, pc, call, ret, sel>>

\* an update of the flag that leaves the timestamp
uncompleteUserChallengeFlagOnly(id) ==
  /\ user_challenges' =
       {IF r.id = id THEN [r EXCEPT !.completed = 0] ELSE r : r \in user_challenges}
  /\ UNCHANGED <<users, categories, challenge_templates, nextId, pc, call, ret, sel>>

\* UPDATE ... SET completed = 1, completed_at = CURRENT_TIMESTAMP WHERE id = ?
completeUserChallenge(id) ==
  /\ user_challenges' =
       {IF r.id = id
        THEN [r EXCEPT !.completed = 1, !.completed_at = "CURRENT_TIMESTAMP"]
        ELSE r : r \in user_challenges}
  /\ UNCHANGED <<users, categories, challenge_templates, nextId, pc, call, ret, sel>>

\* UPDATE ... SET completed = 0, completed_at = NULL WHERE id = ?
uncompleteUserChallenge(id) ==
  /\ user_challenges' =
       {IF r.id = id
        THEN [r EXCEPT !.completed = 0, !.completed_at = NULL]
        ELSE r : r \in user_challenges}
  /\ UNCHANGED <<users, categories, challenge_templates, nextId, pc, call, ret, sel>>

\* DELETE FROM user_challenges WHERE user_id = ?; DELETE FROM users WHERE id = ?
deleteUser(u) ==
  /\ user_challenges' = {r \in user_challenges : r.user_id # u}
  /\ users' = users \ {u}
  /\ UNCHANGED <<categories, challenge_templates, nextId, pc, call, ret, sel>>

\* DELETE FROM user_challenges WHERE id = ?
deleteUserChallenge(id) ==
  /\ user_challenges' = {r \in user_challenges : r.id # id}
  /\ UNCHANGED <<users, categories, challenge_templates, nextId, pc, call, ret, sel>>

AssignmentIds == 1..(nextId - 1)

\* what the store operations and the selector leave alone
requests == <<env, stat, http, batch, view>>

\* instances of the server on one database file: creation, the completion
\* toggle and the deletion of users
Next ==
  \/ \E p \in Procs, u \in UserIds, d \in RaceDates :
       generateDailyChallenge(p, u, d) /\ UNCHANGED requests
  \/ \E p \in Procs : generateTransaction(p) /\ UNCHANGED requests
  \/ \E id \in AssignmentIds : completeUserChallenge(id) /\ UNCHANGED requests
  \/ \E id \in AssignmentIds : uncompleteUserChallenge(id) /\ UNCHANGED requests
  \/ \E u \in UserIds : deleteUser(u) /\ UNCHANGED requests

Spec == Init /\ [][Next]_vars

\* one caller, one user, requests on several dates, over any seed data
GenNext ==
  \/ \E d \in Dates : generateDailyChallenge(1, 1, d) /\ UNCHANGED requests
  \/ generateTransaction(1) /\ UNCHANGED requests

GenSpec == GenInit /\ [][GenNext]_vars

\* one caller, requests of both users for the current day over the full
\* catalog: the day of a request is never before the date of a stored row
PairNext ==
  \/ \E u \in UserIds, d \in {DateKey(DayTable[i]) : i \in 1..MaxPairDays} :
       /\ \A r \in user_challenges : ~LexLess(d, r.date)
       /\ generateDailyChallenge(1, u, d) /\ UNCHANGED requests
  \/ generateTransaction(1) /\ UNCHANGED requests

PairSpec == Init /\ [][PairNext]_vars

\* creation and both deletions of the store, until MaxIds ids are handed out
DelNext ==
  \/ \E p \in Procs, u \in UserIds, d \in RaceDates :
       nextId <= MaxIds /\ generateDailyChallenge(p, u, d) /\ UNCHANGED requests
  \/ \E p \in Procs : generateTransaction(p) /\ UNCHANGED requests
  \/ \E id \in AssignmentIds : deleteUserChallenge(id) /\ UNCHANGED requests
  \/ \E u \in UserIds : deleteUser(u) /\ UNCHANGED requests

DelSpec == Init /\ [][DelNext]_vars

\* ------------------------------------------------ the statistics on their own
\* getUserStats, lines 187-203
getUserStats(u) ==
  /\ LET totalChallenges == countUserChallenges(u)
         completedChallenges == countCompletedUserChallenges(u)
         currentStreak == calculateCurrentStreak(u)
         longestStreak == calculateLongestStreak(u)
         completionRate ==
           IF totalChallenges > 0
           THEN roundedPercentage(completedChallenges, totalChallenges)
           ELSE 0
     IN  stat' = [stat EXCEPT !.got = TRUE, !.user = u,
                              !.totalChallenges = totalChallenges,
                              !.completedChallenges = completedChallenges,
                              !.currentStreak = currentStreak,
                              !.longestStreak = longestStreak,
                              !.completionRate = completionRate]
  /\ UNCHANGED <<store, pc, call, ret, sel, env, http, batch, view>>

\* one call of calculateCompletionRate, lines 170-180
callCalculateCompletionRate(u) ==
  /\ stat' = [stat EXCEPT !.gotRate = TRUE, !.rateUser = u,
                          !.rate = calculateCompletionRate(u)]
  /\ UNCHANGED <<store, pc, call, ret, sel, env, http, batch, view>>

\* the user whose statistics are read
StatUsers == {1}

\* the statistics of u on the present state of the store
Snapshot(u) ==
  LET totalChallenges == countUserChallenges(u)
      completedChallenges == countCompletedUserChallenges(u)
  IN  [totalChallenges |-> totalChallenges,
       completedChallenges |-> completedChallenges,
       currentStreak |-> calculateCurrentStreak(u),
       longestStreak |-> calculateLongestStreak(u),
       completionRate |->
         IF totalChallenges > 0
         THEN roundedPercentage(completedChallenges, totalChallenges)
         ELSE 0]

\* getUserStats statement by statement, each statement a read of the store
\* outside any transaction; every step taken during the call adds the
\* statistics of the state it starts from to snaps, so that at the return
\* snaps holds the statistics of every state the store had during the call
\* line 188
readTotalChallenges(u) ==
  /\ stat.at = "idle"
  /\ stat' = [stat EXCEPT !.got = FALSE, !.user = u, !.at = "total",
                          !.totalChallenges = countUserChallenges(u),
                          !.snaps = {Snapshot(u)}]
  /\ UNCHANGED <<store, pc, call, ret, sel, env, http, batch, view>>

\* line 189
readCompletedChallenges ==
  /\ stat.at = "total"
  /\ stat' = [stat EXCEPT !.at = "completed",
                          !.snaps = @ \cup {Snapshot(stat.user)},
                          !.completedChallenges =
                             countCompletedUserChallenges(stat.user)]
  /\ UNCHANGED <<store, pc, call, ret, sel, env, http, batch, view>>

\* line 190
readCurrentStreak ==
  /\ stat.at = "completed"
  /\ stat' = [stat EXCEPT !.at = "current",
                          !.snaps = @ \cup {Snapshot(stat.user)},
                          !.currentStreak = calculateCurrentStreak(stat.user)]
  /\ UNCHANGED <<store, pc, call, ret, sel, env, http, batch, view>>

\* lines 191-202
readLongestStreak ==
  /\ stat.at = "current"
  /\ stat' = [stat EXCEPT !.at = "idle", !.got = TRUE,
                          !.snaps = @ \cup {Snapshot(stat.user)},
                          !.longestStreak = calculateLongestStreak(stat.user),
                          !.completionRate =
                             IF stat.totalChallenges > 0
                             THEN roundedPercentage(stat.completedChallenges,
                                                    stat.totalChallenges)
                             ELSE 0]
  /\ UNCHANGED <<store, pc, call, ret, sel, env, http, batch, view>>

\* a step of another instance while the statistics are read
duringStats(write) ==
  /\ write
  /\ UNCHANGED <<env, http, batch, view>>
  /\ stat' = IF stat.at = "idle" THEN stat
             ELSE [stat EXCEPT !.snaps = @ \cup {Snapshot(stat.user)}]

\* the statistics of user 1 read by one instance while another instance
\* creates and toggles the user's assignments
SnapNext ==
  \/ \E u \in StatUsers : readTotalChallenges(u)
  \/ readCompletedChallenges
  \/ readCurrentStreak
  \/ readLongestStreak
  \/ \E u \in StatUsers, d \in {toISODate(env.now)} :
       duringStats(generateDailyChallenge(1, u, d))
  \/ duringStats(generateTransaction(1))
  \/ \E id \in AssignmentIds : duringStats(completeUserChallenge(id))
  \/ \E id \in AssignmentIds : duringStats(uncompleteUserChallenge(id))

SnapSpec == Init /\ [][SnapNext]_vars

StatNext ==
  \/ \E u \in StatUsers : getUserStats(u)
  \/ \E u \in StatUsers : callCalculateCompletionRate(u)

\* the user_challenges row of day n
historyRow(id, u, n, done) ==
  [newUserChallenge(id, u, 1, IsoDate(n)) EXCEPT
     !.completed = IF done THEN 1 ELSE 0,
     !.completed_at = IF done THEN "CURRENT_TIMESTAMP" ELSE NULL]

\* histories of user 1 over the days around the start of daylight saving
\* time in Berlin: per day no row, an open row or a completed row; user 2
\* has one completed row
FirstStatDay == 24
StatDays == FirstStatDay..(FirstStatDay + MaxStatDays - 1)
LastStatDay == FirstStatDay + MaxStatDays - 1
StatNowDays == (LastStatDay - 1)..(LastStatDay + 1)

StatInit ==
  \E h \in [StatDays -> {"none", "open", "done"}] :
  \E tz \in TimeZones : \E t \in StatNowDays :
    /\ users = UserIds
    /\ categories = CatNums
    /\ challenge_templates = TemplateNums
    /\ user_challenges =
         {historyRow(n - FirstStatDay + 1, 1, n, h[n] = "done") :
            n \in {m \in StatDays : h[m] # "none"}}
         \cup {historyRow(MaxStatDays + 1, 2, FirstStatDay, TRUE)}
    /\ nextId = MaxStatDays + 2
    /\ NoCaller /\ NoRequest
    /\ env = [tz |-> tz, now |-> DayHours * t + NoonHour]

StatSpec == StatInit /\ [][StatNext]_vars

\* histories of user 1 of total rows on consecutive days from 2023-03-01, the
\* first completed of them completed
RateTotals == {0, 1, 3, 8, 10, MaxTotal}

RateInit ==
  \E total \in RateTotals : \E completed \in 0..total :
    /\ users = UserIds
    /\ categories = CatNums
    /\ challenge_templates = TemplateNums
    /\ user_challenges = {historyRow(n, 1, n, n <= completed) : n \in 1..total}
    /\ nextId = total + 1
    /\ NoCaller /\ NoRequest
    /\ env = DefaultEnv

RateSpec == RateInit /\ [][StatNext]_vars

\* histories longer than the query of calculateCurrentStreak reads: one
\* completed row per day from 2023-04-01 on, read on the last day or later
LongFirstDay == MonthLengths[1] + 1
LongInit ==
  \E total \in (HistoryLimit - 1)..(HistoryLimit + MaxLongExtra) :
  \E tz \in TimeZones, t \in 0..2 :
    /\ users = UserIds
    /\ categories = CatNums
    /\ challenge_templates = TemplateNums
    /\ user_challenges =
         {historyRow(i, 1, LongFirstDay + i - 1, TRUE) : i \in 1..total}
    /\ nextId = total + 1
    /\ NoCaller /\ NoRequest
    /\ env = [tz |-> tz,
              now |-> DayHours * (LongFirstDay + total - 1 + t) + NoonHour]

LongSpec == LongInit /\ [][StatNext]_vars

\* ------------------------------------------------ the selector on its own
SelAlphabet == {97, 126}

ShortKeys == UNION {[1..n -> SelAlphabet] : n \in 0..MaxKeyLen}

\* "GydZG_", whose hash is -2^31
MinHashKey == <<71, 121, 100, 90, 71, 95>>

SelKeys ==
  ShortKeys \cup Dates \cup {MinHashKey}
    \cup {d \o CatId(c) : d \in RaceDates, c \in CatNums}

SelMods == (0 - MaxMod)..MaxMod

\* one call getDateBasedIndex(key, max)
select(key, max) ==
  /\ LET r == getDateBasedIndex(key, max)
     IN  sel' = [called |-> TRUE, key |-> key, max |-> max, threw |-> FALSE,
                 nan |-> r.nan, value |-> r.value,
                 again |-> sel.called /\ sel.key = key /\ sel.max = max,
                 same |-> sel.nan = r.nan /\ sel.value = r.value]
  /\ UNCHANGED <<store, pc, call, ret>>

SelNext ==
  \E key \in SelKeys, max \in SelMods : select(key, max) /\ UNCHANGED requests

SelSpec == Init /\ [][SelNext]_vars

\* ===================================================================== claims

\* C1: in every reachable store state there is at most one user_challenges
\* row per (user_id, date), whatever the interleaving of the callers
C1_OneAssignmentPerUserDate ==
  \A r1 \in user_challenges : \A r2 \in user_challenges :
    (r1.user_id = r2.user_id /\ r1.date = r2.date) => r1 = r2

\* C1 witness: two callers raced on one (user, date), the constraint refused
\* the second insert, and the row of the first is there and completed
C1_Witness ==
  \E p \in Procs :
    /\ pc[p] = "idle"
    /\ ret[p].err = "SQLITE_CONSTRAINT_UNIQUE"
    /\ \E r \in user_challenges :
         r.user_id = call[p].user /\ r.date = call[p].date /\ r.completed = 1

\* C3: a caller that loses the race on (userId, dateKey) is never handed the
\* uniqueness violation: it returns the id of the existing assignment
C3_RaceLoserReturnsExistingId ==
  \A p \in Procs :
    (pc[p] = "idle" /\ ret[p].ran /\
       \E r \in user_challenges : r.user_id = call[p].user /\ r.date = call[p].date)
    => (ret[p].kind = "ok" /\
        \E r \in user_challenges :
          r.user_id = call[p].user /\ r.date = call[p].date /\ r.id = ret[p].id)

\* C6: for every key and every n > 0 the selector returns an integer in
\* [0, n), and a repeated call returns the same value
C6_SelectInRange ==
  (sel.called /\ sel.max > 0) =>
    /\ ~sel.threw
    /\ ~sel.nan
    /\ sel.value \in 0..(sel.max - 1)
    /\ sel.again => sel.same

\* C6 witness: a repeated call on a date key, whose hash is negative, with a
\* modulus that leaves a remainder
C6_Witness ==
  /\ sel.called /\ sel.again /\ sel.same
  /\ sel.key \in Dates
  /\ IsNegative32(StringHash(sel.key))
  /\ sel.max > 1
  /\ sel.value > 0

RowsFor(u, d) == {r \in user_challenges : r.user_id = u /\ r.date = d}

\* C2: a second call with the same (userId, dateKey) returns the id of the
\* first and inserts nothing; assignments of different dates have different
\* ids; every creation is one insert, so the rows are as many as the inserts
C2_RepeatedCallSameId ==
  /\ \A p \in Procs :
       (pc[p] = "idle" /\ call[p].rep # 0)
       => (ret[p].kind = "ok" /\ ret[p].id = call[p].rep /\ ~ret[p].inserted)
  /\ \A p \in Procs :
       (pc[p] = "idle" /\ ret[p].kind = "ok")
       => \E r \in RowsFor(call[p].user, call[p].date) : r.id = ret[p].id
  /\ \A r1 \in user_challenges : \A r2 \in user_challenges :
       r1.date # r2.date => r1.id # r2.id
  /\ Cardinality(user_challenges) = nextId - 1

\* C2 witness: the same request was made twice in a row and answered with
\* the same id, and an assignment of another date exists
C2_Witness ==
  \E p \in Procs :
    /\ pc[p] = "idle"
    /\ call[p].rep # 0
    /\ ret[p].id = call[p].rep
    /\ \E r \in user_challenges : r.date # call[p].date /\ r.id # ret[p].id

FirstAbsentAfter(cats, recentIds, base) ==
  LET n == Len(cats)
      at(k) == cats[((base + k) % n) + 1]
      k == CHOOSE k \in 1..n :
             at(k) \notin recentIds /\ \A j \in 1..(k - 1) : at(j) \in recentIds
  IN  at(k)

\* the row a successful run has inserted carries a template of its category
InsertedAsSelected(p) ==
  /\ ret[p].kind = "ok"
  /\ ret[p].inserted
  /\ \E r \in RowsFor(call[p].user, call[p].date) :
       /\ r.id = ret[p].id
       /\ r.template_id = ret[p].template
       /\ TplCategory(r.template_id) = ret[p].category

\* C8: when the recent window has at least 3 entries, the base category is
\* among its category ids and some category is not, the selected category is
\* the first absent one in the scan from baseIndex + 1 with wraparound
C8_AntiRepetitionPicksFirstAbsent ==
  \A p \in Procs :
    (/\ pc[p] = "idle"
     /\ ret[p].ran
     /\ ret[p].cats # <<>>
     /\ Len(ret[p].recent) >= 3
     /\ ret[p].cats[ret[p].base + 1] \in SeqRange(ret[p].recent)
     /\ \E c \in SeqRange(ret[p].cats) : c \notin SeqRange(ret[p].recent))
    => (/\ ret[p].category =
             FirstAbsentAfter(ret[p].cats, SeqRange(ret[p].recent), ret[p].base)
        /\ ret[p].templates # <<>> => InsertedAsSelected(p))

\* C8 witness: three categories, a window of three rows of the base category
\* only, and the category after the base one selected and inserted
C8_Witness ==
  \E p \in Procs :
    /\ pc[p] = "idle"
    /\ ret[p].ran
    /\ Len(ret[p].cats) = 3
    /\ Len(ret[p].recent) = 3
    /\ SeqRange(ret[p].recent) = {ret[p].cats[ret[p].base + 1]}
    /\ ret[p].category = ret[p].cats[((ret[p].base + 1) % 3) + 1]
    /\ InsertedAsSelected(p)

\* C9: when the recent window has at least 3 entries and every category is
\* among its category ids, the selected category is categories[baseIndex]
\* and the assignment is created
C9_ExhaustionFallback ==
  \A p \in Procs :
    (/\ pc[p] = "idle"
     /\ ret[p].ran
     /\ ret[p].cats # <<>>
     /\ Len(ret[p].recent) >= 3
     /\ SeqRange(ret[p].cats) \subseteq SeqRange(ret[p].recent))
    => (/\ ret[p].category = ret[p].cats[ret[p].base + 1]
        /\ InsertedAsSelected(p))

\* C9 witness: two categories, both in a window of three rows, the base
\* category selected again and inserted
C9_Witness ==
  \E p \in Procs :
    /\ pc[p] = "idle"
    /\ ret[p].ran
    /\ Len(ret[p].cats) = 2
    /\ Len(ret[p].recent) >= 3
    /\ SeqRange(ret[p].cats) \subseteq SeqRange(ret[p].recent)
    /\ ret[p].category = ret[p].cats[ret[p].base + 1]
    /\ InsertedAsSelected(p)

\* C10: a transaction that finds no category fails with the error of the
\* empty category list; one whose selected category has no template fails
\* with the error that names that category, whatever the other categories
\* hold; a failed transaction inserts nothing and leaves every table as it was
C10_ConfigurationErrors ==
  [][\A p \in Procs :
       (pc[p] = "checked" /\ pc'[p] = "idle")
       => (/\ categories = {}
             => (ret'[p].kind = "error" /\ ret'[p].err = "NoCategories")
           /\ categories # {}
             => (/\ ret'[p].category \in categories
                 /\ (\A t \in challenge_templates :
                       TplCategory(t) # ret'[p].category)
                    => (ret'[p].kind = "error" /\ ret'[p].err = "NoTemplates"))
           /\ ret'[p].kind = "error"
             => (~ret'[p].inserted /\ store' = store))]_vars

\* C10 witness: the call failed on a category without templates while
\* another category has templates, and no row was inserted
C10_Witness ==
  \E p \in Procs :
    /\ pc[p] = "idle"
    /\ ret[p].kind = "error"
    /\ ret[p].err = "NoTemplates"
    /\ ret[p].category \in categories
    /\ challenge_templates # {}
    /\ RowsFor(call[p].user, call[p].date) = {}

\* ------------------------------------------------ claims on the statistics
RowsOf(u) == {r \in user_challenges : r.user_id = u}

\* the calendar day of a row, counted as the days of IsoDate
DayOf(r) == ParseDate(r.date) \div DayHours

DoneDays(u) == {DayOf(r) : r \in {x \in RowsOf(u) : x.completed = 1}}

\* the row of u with the latest date
LatestRow(u) == CHOOSE r \in RowsOf(u) : \A x \in RowsOf(u) : DayOf(x) <= DayOf(r)

\* the calendar day the process is in
Today == LocalDay(env.tz, env.now)

\* how many consecutive days n, n - 1, ... are all in D
RunEndingAt(D, n) ==
  CHOOSE k \in 0..Cardinality(D) :
    (\A j \in 0..(k - 1) : (n - j) \in D) /\ (n - k) \notin D

\* round(100 * c / t), halves upwards, in integers
HalfUpPercentage(c, t) == (200 * c + t) \div (2 * t)

\* C11: completionRate is round(100 * completed / total) with halves rounded
\* up, 0 when there is no row, and calculateCompletionRate returns the
\* completionRate of getUserStats on the same store
C11_CompletionRateHalfUp ==
  /\ stat.got =>
       stat.completionRate =
         IF RowsOf(stat.user) = {} THEN 0
         ELSE HalfUpPercentage(Cardinality(DoneDays(stat.user)),
                               Cardinality(RowsOf(stat.user)))
  /\ (stat.got /\ stat.gotRate /\ stat.rateUser = stat.user) =>
       stat.rate = stat.completionRate

\* C12: when the latest row is dated today and completed, currentStreak is
\* the number of consecutive days ending today that have a completed row
C12_CurrentStreakEndingToday ==
  (/\ stat.got
   /\ RowsOf(stat.user) # {}
   /\ DayOf(LatestRow(stat.user)) = Today
   /\ LatestRow(stat.user).completed = 1)
  => (/\ stat.currentStreak >= 1
      /\ stat.currentStreak = RunEndingAt(DoneDays(stat.user), Today))

\* C13: when the latest row is completed and not dated today, currentStreak
\* is the number of consecutive days ending at its date that have a
\* completed row
C13_CurrentStreakEndingBeforeToday ==
  (/\ stat.got
   /\ RowsOf(stat.user) # {}
   /\ DayOf(LatestRow(stat.user)) # Today
   /\ LatestRow(stat.user).completed = 1)
  => stat.currentStreak =
       RunEndingAt(DoneDays(stat.user), DayOf(LatestRow(stat.user)))

\* C14: currentStreak is 0 for a user without rows, and 0 whenever the
\* latest row is not completed, whatever its date and the rows before it
C14_CurrentStreakZero ==
  (stat.got /\ (RowsOf(stat.user) = {} \/ LatestRow(stat.user).completed = 0))
  => stat.currentStreak = 0

\* C14 witness: the latest row is open, two days before it are completed,
\* and the streak read is 0
C14_Witness ==
  /\ stat.got
  /\ RowsOf(stat.user) # {}
  /\ LatestRow(stat.user).completed = 0
  /\ DayOf(LatestRow(stat.user)) - 1 \in DoneDays(stat.user)
  /\ DayOf(LatestRow(stat.user)) - 2 \in DoneDays(stat.user)
  /\ stat.currentStreak = 0

\* the scan the streak is defined by, on calendar days: a completed row
\* extends the run when the completed row before it is the day before
RECURSIVE ReferenceScan(_, _, _, _, _)
ReferenceScan(rows, i, currentRun, longestRun, previousCompletedDay) ==
  IF i > Len(rows) THEN longestRun
  ELSE IF rows[i].completed = 1
       THEN LET run == IF \/ previousCompletedDay = {}
                          \/ previousCompletedDay = {DayOf(rows[i]) - 1}
                       THEN currentRun + 1 ELSE 1
                best == IF run > longestRun THEN run ELSE longestRun
            IN  ReferenceScan(rows, i + 1, run, best, {DayOf(rows[i])})
       ELSE ReferenceScan(rows, i + 1, 0, longestRun, {})

\* the length of the longest run of consecutive days in D
MaxRun(D) ==
  CHOOSE k \in 0..Cardinality(D) :
    /\ k = 0 \/ \E n \in D : \A j \in 0..(k - 1) : (n + j) \in D
    /\ ~ \E n \in D : \A j \in 0..k : (n + j) \in D

\* C15: longestStreak equals the result of the reference scan over the
\* user's rows in ascending date order
C15_LongestStreakIsReferenceScan ==
  stat.got =>
    stat.longestStreak = ReferenceScan(RowsByDateAsc(RowsOf(stat.user)), 1, 0, 0, {})

\* C16: longestStreak is the length of the longest run of consecutive
\* calendar dates that each have a completed row of the user
C16_LongestStreakIsMaxRun ==
  stat.got => stat.longestStreak = MaxRun(DoneDays(stat.user))

\* ------------------------------------------------ claims on the toggle
\* C17: in every state a caller can observe, a row has a completion time
\* exactly when it is completed, and a row that has just been created is not
\* completed and has no completion time
C17_CompletedAtIffCompleted ==
  [][/\ \A r \in user_challenges' :
          (r.completed = 1) <=> (r.completed_at # NULL)
     /\ \A r \in user_challenges' :
          (r.id \notin {x.id : x \in user_challenges})
            => (r.completed = 0 /\ r.completed_at = NULL)]_vars

\* C17 witness: one row is completed with its time, and another row of the
\* same store is open without one
C17_Witness ==
  \E r, x \in user_challenges :
    /\ r.completed = 1 /\ r.completed_at # NULL
    /\ x.completed = 0 /\ x.completed_at = NULL

\* ------------------------------------------------ the completion route
\* who sends the request: 0 has no valid token, the others are payload.sub
Callers == {0} \cup UserIds

\* request bodies: one that is no JSON, and JSON objects without a
\* challengeId (0) or with one, known or not
Bodies ==
  {[json |-> FALSE, challengeId |-> 0]}
    \cup {[json |-> TRUE, challengeId |-> i] : i \in 0..(MaxIds + 1)}

\* a handler without the comparison of user_id and request.user.id
toggleOutcomeForAnyUser(caller, body) ==
  IF caller = 0 THEN [status |-> 401, called |-> FALSE]
  ELSE IF ~body.json THEN [status |-> 500, called |-> FALSE]
  ELSE IF body.challengeId = 0 THEN [status |-> 400, called |-> FALSE]
  ELSE IF getUserChallengeById(body.challengeId) = {}
       THEN [status |-> 404, called |-> FALSE]
  ELSE [status |-> 200, called |-> TRUE]

\* withAuth and the handler up to its response: the status, and whether the
\* update of the row is called
toggleOutcome(caller, body) ==
  IF caller = 0 THEN [status |-> 401, called |-> FALSE]
  ELSE IF ~body.json THEN [status |-> 500, called |-> FALSE]
  ELSE IF body.challengeId = 0 THEN [status |-> 400, called |-> FALSE]
  ELSE LET existingChallenge == getUserChallengeById(body.challengeId)
       IN  IF existingChallenge = {} THEN [status |-> 404, called |-> FALSE]
           ELSE IF TheRow(existingChallenge).user_id # caller
                THEN [status |-> 403, called |-> FALSE]
           ELSE LET template == TheRow(existingChallenge).template_id
                IN  IF \/ template \notin challenge_templates
                       \/ TplCategory(template) \notin categories
                    THEN [status |-> 500, called |-> TRUE]
                    ELSE [status |-> 200, called |-> TRUE]

response(method, caller, body, out) ==
  [method |-> method, user |-> caller, json |-> body.json,
   challengeId |-> body.challengeId, status |-> out.status,
   updated |-> out.called]

\* POST /api/challenges/complete
POST(caller, body) ==
  LET out == toggleOutcome(caller, body)
  IN  /\ IF out.called
         THEN completeUserChallenge(body.challengeId)
         ELSE UNCHANGED <<store, pc, call, ret, sel>>
      /\ http' = response("POST", caller, body, out)
      /\ UNCHANGED <<env, stat, batch, view>>

\* DELETE /api/challenges/complete
DELETE(caller, body) ==
  LET out == toggleOutcome(caller, body)
  IN  /\ IF out.called
         THEN uncompleteUserChallenge(body.challengeId)
         ELSE UNCHANGED <<store, pc, call, ret, sel>>
      /\ http' = response("DELETE", caller, body, out)
      /\ UNCHANGED <<env, stat, batch, view>>

\* MaxIds rows, each of either user, open or completed
ApiInit ==
  \E owner \in [1..MaxIds -> UserIds], done \in [1..MaxIds -> BOOLEAN] :
    /\ users = UserIds
    /\ categories = CatNums
    /\ challenge_templates = {t \in TemplateNums : TplCategory(t) \in CatNums}
    /\ user_challenges =
         {historyRow(i, owner[i], FirstStatDay + i, done[i]) : i \in 1..MaxIds}
    /\ nextId = MaxIds + 1
    /\ NoCaller /\ NoRequest /\ env = DefaultEnv

ApiNext ==
  \/ \E caller \in Callers, body \in Bodies : POST(caller, body)
  \/ \E caller \in Callers, body \in Bodies : DELETE(caller, body)
  \/ \E u \in UserIds : deleteUser(u) /\ UNCHANGED requests

ApiSpec == ApiInit /\ [][ApiNext]_vars

\* the rows a request names
Target(rows, h) == {r \in rows : r.id = h.challengeId}

\* C18: a request of an authenticated user is answered 400 without a
\* challengeId, 404 for an unknown row and 403 for a row of another user;
\* with these answers no update is called and the store is as before; and the
\* completed state of a row changes only in a step that answers a request of
\* its owner for that row
C18_ToggleOnlyByOwner ==
  [][/\ (http' # http) =>
          LET h == http'
              named == h.user # 0 /\ h.json /\ h.challengeId # 0
          IN  /\ (h.user # 0 /\ h.json /\ h.challengeId = 0) => h.status = 400
              /\ (named /\ Target(user_challenges, h) = {}) => h.status = 404
              /\ (named /\ \E r \in Target(user_challenges, h) : r.user_id # h.user)
                   => h.status = 403
              /\ (h.status \in {400, 403, 404})
                   => (~h.updated /\ UNCHANGED store)
     /\ \A r \in user_challenges, x \in user_challenges' :
          (x.id = r.id /\ <<x.completed, x.completed_at>> # <<r.completed, r.completed_at>>)
            => /\ http'.challengeId = r.id
               /\ http'.user = r.user_id
               /\ http'.status = 200]_vars

\* C18 witness: DELETE for a completed row of the other user was answered 403
\* and the row is still completed
C18_Witness ==
  /\ http.method = "DELETE"
  /\ http.status = 403
  /\ ~http.updated
  /\ \E r \in Target(user_challenges, http) :
       r.user_id # http.user /\ r.completed = 1 /\ r.completed_at # NULL

\* ------------------------------------------------ claims on deletion
\* C19: a step removes a row only by deleting its user: the user is deleted
\* in the same step, no row of that user is left, and the rows of the other
\* users are as before
C19_RemovedOnlyWithUser ==
  [][\A r \in user_challenges :
       (r.id \notin {x.id : x \in user_challenges'})
         => /\ r.user_id \in users
            /\ r.user_id \notin users'
            /\ \A x \in user_challenges' : x.user_id # r.user_id
            /\ \A x \in user_challenges :
                 x.user_id # r.user_id => x \in user_challenges']_vars

\* ------------------------------------------------ the batch of upcoming days
\* challengeIds.push(challengeId), and the return after the last day
push(b, id) ==
  LET ids == Append(b.ids, id)
  IN  [b EXCEPT !.ids = ids, !.active = Len(ids) < b.days,
                !.done = Len(ids) = b.days]

\* getUpcomingChallenges, lines 122-123 and the loop's test: the call, with
\* today = new Date(); before is the table at the call
getUpcomingChallenges(u, days) ==
  /\ ~batch.active
  /\ pc[1] = "idle"
  /\ batch' = [active |-> days > 0, done |-> days = 0, failed |-> FALSE,
               user |-> u, days |-> days, today |-> env.now, dates |-> <<>>,
               ids |-> <<>>, inserts |-> 0, before |-> user_challenges]
  /\ UNCHANGED <<store, pc, call, ret, sel, env, stat, http, view>>

\* lines 126-130 up to the existence check of generateDailyChallenge
upcomingCall ==
  /\ batch.active
  /\ LET i == Len(batch.ids)
         date == setDatePlus(env.tz, batch.today, i)
         dateStr == toISODate(date)
         called == [batch EXCEPT !.dates = Append(@, dateStr)]
     IN  /\ generateDailyChallenge(1, batch.user, dateStr)
         /\ batch' = IF ret'[1].kind = "ok" THEN push(called, ret'[1].id)
                     ELSE called
  /\ UNCHANGED <<env, stat, http, view>>

\* the transaction of the call in progress, and lines 130-131
upcomingTransaction ==
  /\ batch.active
  /\ generateTransaction(1)
  /\ batch' = IF ret'[1].kind = "ok"
              THEN [push(batch, ret'[1].id) EXCEPT !.inserts = @ + 1]
              ELSE [batch EXCEPT !.active = FALSE, !.failed = TRUE]
  /\ UNCHANGED <<env, stat, http, view>>

\* hours of the day at which the batch is called, and the instants: the day
\* before daylight saving time starts in Berlin
BatchNows ==
  {DayHours * (FirstStatDay + 1) + h : h \in {0, NoonHour, DayHours - 1}}

BatchInit ==
  /\ SeededStore(CatNums, CatNums)
  /\ NoCaller
  /\ NoRequest
  /\ \E tz \in TimeZones, now \in BatchNows : env = [tz |-> tz, now |-> now]

BatchNext ==
  \/ \E u \in UserIds, days \in 0..MaxBatchDays : getUpcomingChallenges(u, days)
  \/ upcomingCall
  \/ upcomingTransaction

BatchSpec == BatchInit /\ [][BatchNext]_vars

\* the batch for user 1 at noon, the completion of the rows it made and the
\* statistics read afterwards
PlanInit ==
  /\ SeededStore(CatNums, CatNums)
  /\ NoCaller
  /\ NoRequest
  /\ \E tz \in TimeZones : env = [tz |-> tz, now |-> DayHours * (FirstStatDay + 1) + NoonHour]

PlanNext ==
  \/ \E days \in 0..MaxBatchDays : getUpcomingChallenges(1, days)
  \/ upcomingCall
  \/ upcomingTransaction
  \/ \E id \in AssignmentIds : completeUserChallenge(id) /\ UNCHANGED requests
  \/ getUserStats(1)

PlanSpec == PlanInit /\ [][PlanNext]_vars

\* the date of the i-th day of a batch, today being the date of
\* getTodaysChallengeId at the instant of the call
UpcomingDate(b, i) == IsoDate(b.today \div DayHours + i)

\* C20: a batch of K days that has returned has called the single-day
\* operation K times, for today, today + 1, ..., today + K - 1 in this order,
\* and returned K ids, the i-th being the id of the user's row for today + i;
\* when the user had no row on these dates it has inserted K rows; for K = 0
\* it has returned the empty list and inserted nothing
C20_BatchOfKDays ==
  batch.done =>
    /\ Len(batch.dates) = batch.days
    /\ Len(batch.ids) = batch.days
    /\ \A i \in 1..Len(batch.dates) : batch.dates[i] = UpcomingDate(batch, i - 1)
    /\ \A i \in 1..Len(batch.ids) :
         \E r \in user_challenges :
           /\ r.id = batch.ids[i]
           /\ r.user_id = batch.user
           /\ r.date = UpcomingDate(batch, i - 1)
    /\ (\A r \in batch.before :
          r.user_id = batch.user
            => \A i \in 0..(batch.days - 1) : r.date # UpcomingDate(batch, i))
         => /\ batch.inserts = batch.days
            /\ Cardinality(user_challenges \ batch.before) = batch.days
    /\ batch.days = 0 => (batch.ids = <<>> /\ user_challenges = batch.before)

\* ------------------------------------------------ claims on the frame of the toggle
\* a step that changes the completed state of some row
Toggled ==
  \E r \in user_challenges, x \in user_challenges' :
    x.id = r.id /\ <<x.completed, x.completed_at>> # <<r.completed, r.completed_at>>

\* C21: a row keeps its id, user, date and template in every step; a step
\* that changes the completed state of a row changes that one row only,
\* leaves the set of rows' ids and their number as they are, and changes no
\* other table
C21_ToggleFrame ==
  [][/\ \A r \in user_challenges, x \in user_challenges' :
          x.id = r.id
            => <<x.user_id, x.date, x.template_id>> = <<r.user_id, r.date, r.template_id>>
     /\ Toggled =>
          /\ Cardinality(user_challenges') = Cardinality(user_challenges)
          /\ {x.id : x \in user_challenges'} = {r.id : r \in user_challenges}
          /\ Cardinality(user_challenges \ user_challenges') = 1
          /\ UNCHANGED <<users, categories, challenge_templates, nextId>>]_vars

\* C21 witness: a row of one user is completed while the row of the other
\* user for the same date is open
C21_Witness ==
  \E r, x \in user_challenges :
    /\ r.user_id # x.user_id /\ r.date = x.date
    /\ r.completed = 1 /\ x.completed = 0

\* ------------------------------------------------ claims on the limit of the history
\* the consecutive completed days that end at the latest row of u
LatestRun(u) == RunEndingAt(DoneDays(u), DayOf(LatestRow(u)))

\* C22: currentStreak never exceeds the 100 rows its query reads; when more
\* than 100 consecutive completed days end at the latest row, currentStreak
\* is 100 and longestStreak is the length of the whole run
C22_CurrentStreakWindow ==
  stat.got =>
    /\ stat.currentStreak <= HistoryLimit
    /\ (RowsOf(stat.user) # {} /\ LatestRun(stat.user) > HistoryLimit)
         => /\ stat.currentStreak = HistoryLimit
            /\ stat.longestStreak = LatestRun(stat.user)

\* ------------------------------------------------ claims on the selection below the window minimum
\* a run of the transaction by p that has inserted a row while the user's
\* recent window had fewer than WindowMin rows
CreatedBelowWindowMin(p) ==
  /\ pc[p] = "idle"
  /\ ret[p].ran
  /\ ret[p].kind = "ok"
  /\ ret[p].inserted
  /\ Len(ret[p].recent) < WindowMin

\* C23: a creation with fewer than 3 rows in the recent window selects
\* categories[select(dateKey, categories.length)], in the window or not, and
\* the template templates[select(dateKey + categoryId, templates.length)] of
\* that category's templates, and inserts the row with it
C23_BaseCategoryBelowWindowMin ==
  \A p \in Procs :
    CreatedBelowWindowMin(p) =>
      LET baseIndex == getDateBasedIndex(call[p].date, Len(ret[p].cats)).value
          category == ret[p].cats[baseIndex + 1]
          templates == getChallengeTemplates(category)
          templateIndex ==
            getDateBasedIndex(call[p].date \o CatId(category), Len(templates)).value
      IN  /\ ret[p].cats = getCategories
          /\ ret[p].category = category
          /\ ret[p].template = templates[templateIndex + 1]
          /\ InsertedAsSelected(p)

\* C23 witness: the window had one or two rows, the base category among
\* them, and the row inserted is of the base category again
C23_Witness ==
  \E p \in Procs :
    /\ CreatedBelowWindowMin(p)
    /\ Len(ret[p].recent) >= 1
    /\ Len(ret[p].cats) >= 2
    /\ ret[p].cats[ret[p].base + 1] \in SeqRange(ret[p].recent)
    /\ ret[p].category = ret[p].cats[ret[p].base + 1]
    /\ InsertedAsSelected(p)

\* ------------------------------------------------ claims on the hash of the selector
\* hash * 31 + code modulo 2^32, on the unsigned value hi * 2^16 + lo
ReferenceStep(h, code) ==
  LET l == h.lo * 31 + code
  IN  [hi |-> (h.hi * 31 + l \div Limb) % Limb, lo |-> l % Limb]

\* the reference hash of the codes of s from index i on
RECURSIVE ReferenceHash(_, _, _)
ReferenceHash(h, s, i) ==
  IF i > Len(s) THEN h ELSE ReferenceHash(ReferenceStep(h, s[i]), s, i + 1)

\* abs(hash) mod m for m > 0: the unsigned value u stands for u - 2^32 when
\* its top bit is set, whose absolute value is 2^32 - u
ReferenceIndex(s, m) ==
  LET h == ReferenceHash([hi |-> 0, lo |-> 0], s, 1)
      u == ((h.hi % m) * (Limb % m) + h.lo) % m
      wrap == ((Limb % m) * (Limb % m)) % m
  IN  IF h.hi >= HalfLimb THEN (wrap + m - u) % m ELSE u

\* C24: for every key and every modulus > 0 the selector returns
\* abs(hash) mod modulus of the reference hash, hash = hash * 31 + code in
\* signed 32 bits from 0
C24_ReferenceHash ==
  (sel.called /\ sel.max > 0) =>
    (~sel.threw /\ ~sel.nan /\ sel.value = ReferenceIndex(sel.key, sel.max))

\* C24 witness: the key whose reference hash is -2^31, with a modulus that
\* leaves a remainder
C24_Witness ==
  /\ sel.called
  /\ ReferenceHash([hi |-> 0, lo |-> 0], sel.key, 1) = [hi |-> HalfLimb, lo |-> 0]
  /\ sel.max > 1
  /\ sel.value > 0
  /\ sel.value = ReferenceIndex(sel.key, sel.max)

\* ------------------------------------------------------- the history page
\* the values of the completed filter: undefined, true, false
Filters == {"undefined", "true", "false"}

\* pages of 20 rows the signed-in user's history has under each filter
TotalPages(completed) ==
  IF completed = "undefined" THEN MaxPages
  ELSE IF completed = "true" THEN MaxPages - 1
  ELSE 1

\* the response of GET /api/challenges/history: the rows of the page, here
\* one entry that stands for the rows of page `page` under the filter, and
\* the pagination
fetchChallengeHistory(page, completed) ==
  [null |-> FALSE,
   challenges |-> IF page <= TotalPages(completed)
                  THEN <<[completed |-> completed, page |-> page]>>
                  ELSE <<>>,
   pagination |-> [page |-> page, total |-> TotalPages(completed),
                   completed |-> completed,
                   hasMore |-> page < TotalPages(completed)]]

\* fetchHistory up to the await, lines 40-48: the flags, and the request sent
fetchHistory(v, page, completed, append) ==
  LET flagged == IF ~append
                 THEN [v EXCEPT !.isLoading = TRUE, !.error = NULL]
                 ELSE [v EXCEPT !.isLoadingMore = TRUE]
  IN  [flagged EXCEPT
         !.inflight = @ \cup {[id |-> v.issued + 1, page |-> page,
                               completed |-> completed, append |-> append]},
         !.issued = @ + 1]

\* the page is opened by a signed-in user: the effect of lines 73-77
mount ==
  /\ ~view.mounted
  /\ view' = fetchHistory([view EXCEPT !.mounted = TRUE], 1,
                          view.completedFilter, FALSE)
  /\ UNCHANGED <<store, pc, call, ret, sel, env, stat, http, batch>>

\* handleFilterChange, lines 80-84, and the effect of lines 73-77, which runs
\* when completedFilter has changed
handleFilterChange(completed) ==
  /\ view.mounted
  /\ view.issued < MaxFetches
  /\ LET set == [view EXCEPT !.completedFilter = completed,
                             !.currentPage = 1,
                             !.historyData = NullData]
     IN  view' = IF completed # view.completedFilter
                 THEN fetchHistory(set, 1, completed, FALSE)
                 ELSE set
  /\ UNCHANGED <<store, pc, call, ret, sel, env, stat, http, batch>>

\* the Load More button is rendered with the list
loadMoreShown ==
  /\ view.mounted /\ ~view.isLoading /\ view.error = NULL
  /\ ~view.historyData.null
  /\ Len(view.historyData.challenges) > 0
  /\ view.historyData.pagination.hasMore
  /\ ~view.isLoadingMore

\* handleLoadMore, lines 87-93
handleLoadMore ==
  /\ loadMoreShown
  /\ view.issued < MaxFetches
  /\ LET nextPage == view.currentPage + 1
     IN  view' = fetchHistory([view EXCEPT !.currentPage = nextPage],
                              nextPage, view.completedFilter, TRUE)
  /\ UNCHANGED <<store, pc, call, ret, sel, env, stat, http, batch>>

\* finally, lines 66-69
settled(v, r) ==
  [v EXCEPT !.isLoading = FALSE, !.isLoadingMore = FALSE,
            !.inflight = @ \ {r}]

\* the request r is answered: lines 50-63 and 66-69
fetchResolved(r) ==
  /\ r \in view.inflight
  /\ LET data == fetchChallengeHistory(r.page, r.completed)
         prevData == view.historyData
         next == IF r.append /\ ~prevData.null
                 THEN [null |-> FALSE,
                       challenges |-> prevData.challenges \o data.challenges,
                       pagination |-> data.pagination]
                 ELSE data
     IN  view' = settled([view EXCEPT !.historyData = next], r)
  /\ UNCHANGED <<store, pc, call, ret, sel, env, stat, http, batch>>

\* the request r fails: lines 64-69
fetchRejected(r) ==
  /\ r \in view.inflight
  /\ view' = settled([view EXCEPT !.error = "Failed to load challenge history"], r)
  /\ UNCHANGED <<store, pc, call, ret, sel, env, stat, http, batch>>

HistoryNext ==
  \/ mount
  \/ \E completed \in Filters : handleFilterChange(completed)
  \/ handleLoadMore
  \/ \E r \in view.inflight : fetchResolved(r)
  \/ \E r \in view.inflight : fetchRejected(r)

HistorySpec == Init /\ [][HistoryNext]_vars

\* ------------------------------------------------ claims on the repetition of categories
\* the WindowLimit rows of u with the latest dates, and their categories
LatestRows(u) ==
  {r \in RowsOf(u) :
     Cardinality({x \in RowsOf(u) : LexLess(r.date, x.date)}) < WindowLimit}

LatestCategories(u) == {TplCategory(r.template_id) : r \in LatestRows(u)}

\* C25: a step that creates a row for a user who has at least 3 rows, while
\* some category of the catalog is not among the categories of the user's 5
\* latest rows, creates a row whose category is not among them
C25_NoRepetitionWhenAvoidable ==
  [][\A p \in Procs :
       (/\ pc[p] = "checked" /\ pc'[p] = "idle"
        /\ ret'[p].inserted
        /\ Cardinality(RowsOf(call[p].user)) >= WindowMin
        /\ categories \ LatestCategories(call[p].user) # {})
       => \A r \in user_challenges' \ user_challenges :
            /\ r.user_id = call[p].user
            /\ TplCategory(r.template_id) \in categories
            /\ TplCategory(r.template_id) \notin LatestCategories(call[p].user)]_vars

\* C25 witness: a row created with three rows in the window, the base
\* category among them, and the new row of a category that none of the
\* user's earlier rows has
C25_Witness ==
  \E p \in Procs :
    /\ pc[p] = "idle"
    /\ ret[p].kind = "ok" /\ ret[p].inserted
    /\ Len(ret[p].recent) >= WindowMin
    /\ ret[p].cats[ret[p].base + 1] \in SeqRange(ret[p].recent)
    /\ \A r \in RowsOf(call[p].user) :
         (TplCategory(r.template_id) = ret[p].category) <=> (r.id = ret[p].id)

\* ------------------------------------------------ claims on the users of the selection
\* the window the transaction that created row r saw: ids are handed out in
\* the order of creation, and no row is removed
WindowAt(r) ==
  LET earlier == {x \in user_challenges : x.user_id = r.user_id /\ x.id < r.id}
  IN  {x \in earlier :
         Cardinality({y \in earlier : LexLess(x.date, y.date)}) < WindowLimit}

WindowCategoriesAt(r) == {TplCategory(x.template_id) : x \in WindowAt(r)}

\* both windows below WindowMin rows, or both of at least WindowMin rows with
\* the same categories
SameWindowClass(r1, r2) ==
  LET n1 == Cardinality(WindowAt(r1))
      n2 == Cardinality(WindowAt(r2))
  IN  \/ n1 < WindowMin /\ n2 < WindowMin
      \/ /\ n1 >= WindowMin /\ n2 >= WindowMin
         /\ WindowCategoriesAt(r1) = WindowCategoriesAt(r2)

\* C26: over one catalog, the rows of two different users for one date,
\* created with windows of the same class, have the same template
C26_SelectionIgnoresUser ==
  \A r1 \in user_challenges : \A r2 \in user_challenges :
    (r1.user_id # r2.user_id /\ r1.date = r2.date /\ SameWindowClass(r1, r2))
    => r1.template_id = r2.template_id

\* C26 witness: two users with rows for one date, both created with at least
\* WindowMin rows of the same categories in the window, on different dates
C26_Witness ==
  \E r1 \in user_challenges : \E r2 \in user_challenges :
    /\ r1.user_id # r2.user_id /\ r1.date = r2.date
    /\ Cardinality(WindowAt(r1)) >= WindowMin
    /\ Cardinality(WindowAt(r2)) >= WindowMin
    /\ WindowCategoriesAt(r1) = WindowCategoriesAt(r2)
    /\ r1.template_id = r2.template_id
    /\ WindowAt(r1) # {[x EXCEPT !.user_id = r1.user_id] : x \in WindowAt(r2)}
    /\ {x.date : x \in WindowAt(r1)} # {x.date : x \in WindowAt(r2)}

\* ------------------------------------------------ claims on the statistics as a whole
\* C27: the statistics computed on one state of the store satisfy
\* 0 <= currentStreak <= longestStreak <= completedChallenges <= totalChallenges
C27_StatisticsOrdered ==
  stat.got =>
    /\ 0 <= stat.currentStreak
    /\ stat.currentStreak <= stat.longestStreak
    /\ stat.longestStreak <= stat.completedChallenges
    /\ stat.completedChallenges <= stat.totalChallenges

\* C28: the statistics getUserStats returns while other requests create and
\* toggle assignments between its reads satisfy completedChallenges <=
\* totalChallenges, currentStreak <= longestStreak and 0 <= completionRate
\* <= 100, and are the statistics of one state the store had during the call
C28_ConsistentSnapshot ==
  (stat.got /\ stat.snaps # {}) =>
    /\ stat.completedChallenges <= stat.totalChallenges
    /\ stat.currentStreak <= stat.longestStreak
    /\ 0 <= stat.completionRate /\ stat.completionRate <= 100
    /\ [totalChallenges |-> stat.totalChallenges,
        completedChallenges |-> stat.completedChallenges,
        currentStreak |-> stat.currentStreak,
        longestStreak |-> stat.longestStreak,
        completionRate |-> stat.completionRate] \in stat.snaps

Shown == {view.historyData.challenges[i] :
            i \in 1..Len(view.historyData.challenges)}

\* C30: once no request is in flight, the list and the pagination the page
\* shows are those of the selected filter, and no page is in the list twice
C30_ShownIsOfSelectedFilter ==
  (/\ view.mounted /\ view.inflight = {}
   /\ ~view.isLoading /\ view.error = NULL /\ ~view.historyData.null) =>
    /\ \A c \in Shown : c.completed = view.completedFilter
    /\ view.historyData.pagination.completed = view.completedFilter
    /\ Cardinality(Shown) = Len(view.historyData.challenges)

====
